---- MODULE Spec2Model ----
(***************************************************************************)
(* The status-notification link of os-project: the sensor endpoint         *)
(* (pc.py, FaceDetectionServer) and the display endpoint (pi.py,           *)
(* DisplayController) joined by one TCP connection carrying                *)
(* newline-delimited JSON frames.                                          *)
(*                                                                         *)
(* Text is a sequence of one-character strings, so that framing, encoding  *)
(* and parsing are computed character by character as the code does.       *)
(***************************************************************************)
EXTENDS Integers, Sequences, FiniteSets, Bags, TLC

(***************************************************************************)
(* Text and the wire format                                                *)
(***************************************************************************)

\* The delimiter of pc.py:66 / pi.py:189-190.
NL == "\n"

\* The key of the status record, pc.py:65 and pi.py:213.
FaceKey == <<"f", "a", "c", "e", "_", "d", "e", "t", "e", "c", "t", "e", "d">>

\* json.dumps({"face_detected": face_detected}) with Python's default
\* separators (", " and ": "): the text {"face_detected": true}.
JsonDumps(face_detected) ==
    <<"{", "\"">> \o FaceKey \o <<"\"", ":", " ">>
      \o (IF face_detected THEN <<"t", "r", "u", "e">>
                           ELSE <<"f", "a", "l", "s", "e">>)
      \o <<"}">>

\* (message + "\n").encode(), pc.py:66.  The text is ASCII, so encode() and
\* decode() map characters to bytes one to one.
EncodeFrame(face_detected) == JsonDumps(face_detected) \o <<NL>>

(***************************************************************************)
(* json.loads, for the subset of JSON text the model's streams use:        *)
(* objects, arrays, strings without escapes, integers, true/false/null,    *)
(* with JSON whitespace.  The result keeps what process_message reads:     *)
(* whether the value is an object, and the truth value of its              *)
(* "face_detected" member.                                                 *)
(***************************************************************************)

IsWs(c) == c \in {" ", "\t", "\n", "\r"}

Digits == {"0", "1", "2", "3", "4", "5", "6", "7", "8", "9"}

RECURSIVE SkipWs(_, _)
SkipWs(s, i) ==
    IF i <= Len(s) /\ IsWs(s[i]) THEN SkipWs(s, i + 1) ELSE i

\* kind: "object" | "array" | "string" | "number" | "true" | "false" | "null"
\* truthy: Python's bool(value); fd: the object's face_detected member
\* ("absent" | "truthy" | "falsy"); next: the index after the value.
ParseFail == [ok |-> FALSE, next |-> 0, kind |-> "none", truthy |-> FALSE,
              fd |-> "absent", text |-> <<>>]

Parsed(k, t, n) == [ok |-> TRUE, next |-> n, kind |-> k, truthy |-> t,
                    fd |-> "absent", text |-> <<>>]

HasWord(s, i, w) ==
    /\ i + Len(w) - 1 <= Len(s)
    /\ SubSeq(s, i, i + Len(w) - 1) = w

\* The index of the closing quote of the string opened at i - 1, or 0.
RECURSIVE StringEnd(_, _)
StringEnd(s, i) ==
    IF i > Len(s) \/ s[i] = "\\" THEN 0
    ELSE IF s[i] = "\"" THEN i
    ELSE StringEnd(s, i + 1)

ParseString(s, i) ==
    LET j == StringEnd(s, i + 1)
    IN  IF j = 0 THEN ParseFail
        ELSE [Parsed("string", j > i + 1, j + 1)
                EXCEPT !.text = SubSeq(s, i + 1, j - 1)]

RECURSIVE DigitsEnd(_, _)
DigitsEnd(s, i) ==
    IF i <= Len(s) /\ s[i] \in Digits THEN DigitsEnd(s, i + 1) ELSE i

\* -?(0|[1-9][0-9]*): the integer part of Python's NUMBER_RE.
ParseNumber(s, i) ==
    LET d == IF s[i] = "-" THEN i + 1 ELSE i
    IN  IF d > Len(s) \/ s[d] \notin Digits THEN ParseFail
        ELSE LET e == IF s[d] = "0" THEN d + 1 ELSE DigitsEnd(s, d)
             IN  Parsed("number", \E k \in d..(e - 1) : s[k] # "0", e)

RECURSIVE ParseValue(_, _)
RECURSIVE ParseMembers(_, _, _)
RECURSIVE ParseElements(_, _)

\* The members of an object from the key at i on; fd is the face_detected
\* member seen so far (a later duplicate key replaces an earlier one).
ParseMembers(s, i, fd) ==
    IF i > Len(s) \/ s[i] # "\"" THEN ParseFail
    ELSE
      LET key == ParseString(s, i)
          c   == SkipWs(s, key.next)
      IN  IF ~key.ok \/ c > Len(s) \/ s[c] # ":" THEN ParseFail
          ELSE
            LET val == ParseValue(s, SkipWs(s, c + 1))
                fd2 == IF key.text = FaceKey
                         THEN (IF val.truthy THEN "truthy" ELSE "falsy")
                         ELSE fd
                e   == SkipWs(s, val.next)
            IN  IF ~val.ok \/ e > Len(s) THEN ParseFail
                ELSE IF s[e] = "}"
                  THEN [Parsed("object", TRUE, e + 1) EXCEPT !.fd = fd2]
                ELSE IF s[e] = ","
                  THEN ParseMembers(s, SkipWs(s, e + 1), fd2)
                ELSE ParseFail

ParseElements(s, i) ==
    LET val == ParseValue(s, i)
        e   == SkipWs(s, val.next)
    IN  IF ~val.ok \/ e > Len(s) THEN ParseFail
        ELSE IF s[e] = "]" THEN Parsed("array", TRUE, e + 1)
        ELSE IF s[e] = "," THEN ParseElements(s, SkipWs(s, e + 1))
        ELSE ParseFail

ParseValue(s, i) ==
    IF i > Len(s) THEN ParseFail
    ELSE IF s[i] = "{" THEN
      LET j == SkipWs(s, i + 1)
      IN  IF j <= Len(s) /\ s[j] = "}" THEN Parsed("object", FALSE, j + 1)
          ELSE ParseMembers(s, j, "absent")
    ELSE IF s[i] = "[" THEN
      LET j == SkipWs(s, i + 1)
      IN  IF j <= Len(s) /\ s[j] = "]" THEN Parsed("array", FALSE, j + 1)
          ELSE ParseElements(s, j)
    ELSE IF s[i] = "\"" THEN ParseString(s, i)
    ELSE IF HasWord(s, i, <<"t", "r", "u", "e">>) THEN Parsed("true", TRUE, i + 4)
    ELSE IF HasWord(s, i, <<"f", "a", "l", "s", "e">>) THEN Parsed("false", FALSE, i + 5)
    ELSE IF HasWord(s, i, <<"n", "u", "l", "l">>) THEN Parsed("null", FALSE, i + 4)
    ELSE IF s[i] = "-" \/ s[i] \in Digits THEN ParseNumber(s, i)
    ELSE ParseFail

\* json.loads(message): the value, or ok = FALSE for json.JSONDecodeError
\* (no value, or extra data after it).
JsonLoads(message) ==
    LET val == ParseValue(message, SkipWs(message, 1))
    IN  IF val.ok /\ SkipWs(message, val.next) = Len(message) + 1
          THEN val ELSE ParseFail

(***************************************************************************)
(* The display's frame handling (pi.py)                                    *)
(***************************************************************************)

\* A variant of process_message without the except clause of pi.py:222: a
\* frame that is not JSON raises like any other failure.
ProcessMessage_Uncaught(message) ==
    LET data == JsonLoads(message)
    IN  IF ~data.ok THEN "raise"
        ELSE IF data.kind # "object" THEN "raise"
        ELSE IF data.fd = "truthy" THEN "memes"
        ELSE "slides"

\* process_message(message), pi.py:209-223: what the call does.
\*   "memes" / "slides": root.after(0, switch_to_memes / switch_to_slides)
\*   "decode_error":     json.JSONDecodeError, caught and logged (222-223)
\*   "raise":            data.get on a value that is not a dict raises
\*                       AttributeError, which the handler does not catch
ProcessMessage(message) ==
    LET data == JsonLoads(message)
    IN  IF ~data.ok THEN "decode_error"
        ELSE IF data.kind # "object" THEN "raise"
        ELSE IF data.fd = "truthy" THEN "memes"
        ELSE "slides"

\* The index of the first "\n" of a text, or 0.
RECURSIVE FindNL(_, _)
FindNL(s, i) ==
    IF i > Len(s) THEN 0
    ELSE IF s[i] = NL THEN i
    ELSE FindNL(s, i + 1)

\* The loop of pi.py:189-192 over a buffer; acc collects what the calls of
\* process_message did: the callbacks scheduled, the decode errors logged,
\* and whether a call raised (which abandons the loop).
RECURSIVE SplitLoop(_, _)
SplitLoop(buf, acc) ==
    LET k == FindNL(buf, 1)
    IN  IF k = 0 THEN [acc EXCEPT !.buffer = buf]
        ELSE
          LET line == SubSeq(buf, 1, k - 1)
              rest == SubSeq(buf, k + 1, Len(buf))
              did  == IF line = <<>> THEN "skip" ELSE ProcessMessage(line)
          IN  IF did = "raise" THEN [acc EXCEPT !.buffer = rest, !.raised = TRUE]
              ELSE SplitLoop(rest,
                     [acc EXCEPT
                        !.scheduled = IF did \in {"memes", "slides"}
                                        THEN Append(@, did) ELSE @,
                        !.errors = IF did = "decode_error" THEN @ + 1 ELSE @])

\* A variant of FeedChunk that assigns the chunk to the buffer where the
\* code appends it, so that a partial frame left by the chunk before is lost.
FeedChunk_Overwrites(buf, data) ==
    SplitLoop(data,
              [buffer |-> <<>>, scheduled |-> <<>>, errors |-> 0, raised |-> FALSE])

\* buffer += data, then the loop: pi.py:188-192.
FeedChunk(buf, data) ==
    SplitLoop(buf \o data,
              [buffer |-> <<>>, scheduled |-> <<>>, errors |-> 0, raised |-> FALSE])

(***************************************************************************)
(* Bounds and program constants                                            *)
(***************************************************************************)

\* The calls of send_status a run makes.
MaxPublish == 3

\* The TCP connections the display establishes in a run.
MaxConns == 2

\* The entries the record of the display's connection states keeps.
TraceCap == 4

\* The frames of a stream a foreign peer serves.
MaxFrames == 2

\* socket.listen(1), pc.py:31.
ListenBacklog == 1

\* recv(1024), pi.py:184.
RecvSize == 1024

Conns == 1..MaxConns

(***************************************************************************)
(* State                                                                   *)
(***************************************************************************)

VARIABLES
    \* FaceDetectionServer (pc.py)
    running,            \* self.running
    pc_socket,          \* self.socket: "none" | "unbound" | "listening" | "closed"
    client_socket,      \* self.client_socket: 0 (None) or a connection
    pcMain,             \* the main thread: "init" | "loop" | "cleaned" | "exited"
    pcServer,           \* the thread of start_server:
                        \*   "idle" | "bind" | "accept" | "sleep" | "done" | "dead"
    \* DisplayController (pi.py)
    current_mode,       \* self.current_mode: "None" | "memes" | "slides"
    current_images,     \* self.current_images: "none" | "memes" | "slides"
    current_image_index,
    slide_timer,        \* self.slide_timer: "None" | "armed" | "fired" | "cancelled"
    shown,              \* what image_label shows
    strayTimers,        \* armed Timer objects self.slide_timer no longer refers to
    timerThreads,       \* the Timer threads inside show_next_slide: a bag of
                        \*   [at, list, image]: "draw" holds the image it read at
                        \*   pi.py:159, "arm" has drawn and is before pi.py:162
    memes, slides,      \* the images load_images found in each folder: for each
                        \* file, whether display_image can show it
    pi_socket,          \* self.socket: 0 (None) or a connection
    connected,          \* self.connected
    piConn,             \* the thread of connect_to_pc:
                        \*   "idle" | "connect" | "read" | "sleep" | "killed"
    buffer,             \* the local buffer of connect_to_pc
    piGui,              \* the main thread: "init" | "mainloop" | "quit" | "exited"
    afterQueue,         \* the callbacks root.after(0, ...) has scheduled
    \* The network between them
    nConn,              \* connections established so far
    backlog,            \* connections the listener has not accepted yet
    conn,               \* per connection: the two ends, the bytes written (sent)
                        \*   and how many of them the display has read (rd).
                        \*   An end is "none" | "queued" | "open" | "closed" |
                        \*   "dropped": the last reference to the socket went without
                        \*   a close, and the interpreter's reference counting
                        \*   released it there and then.
    stream,             \* what a peer other than pc.py writes on its first connection
    \* The record of a run
    pubLog,             \* the calls of send_status: value, outcome, connections so far
    applied,            \* the switch_to_* calls the GUI thread has run, in order
    entries,            \* the switch_to_* bodies run past the guard, per mode
    connTrace,          \* the connection states the display went through
    decodeErrors,       \* "Error parsing message" lines logged
    escaped             \* an exception left process_message

sensorVars == <<running, pc_socket, client_socket, pcMain, pcServer>>
modeVars   == <<current_mode, current_images, current_image_index, slide_timer, shown,
                strayTimers, timerThreads>>
folderVars == <<memes, slides>>
linkVars   == <<pi_socket, connected, piConn, buffer>>
guiVars    == <<piGui, afterQueue>>
netVars    == <<nConn, backlog, conn>>
logVars    == <<pubLog, applied, entries, connTrace, decodeErrors, escaped>>

vars == <<sensorVars, modeVars, folderVars, linkVars, guiVars, netVars, stream, logVars>>

NoConn == [piEnd |-> "none", pcEnd |-> "none", reset |-> FALSE,
           sent |-> <<>>, rd |-> 0]

\* The bytes written on connection c that the display has not read.
Unread(c) == SubSeq(conn[c].sent, conn[c].rd + 1, Len(conn[c].sent))

\* The state after both constructors: pc.py:10-24 and pi.py:14-52.
InitCommon ==
    /\ running = FALSE
    /\ pc_socket = "none"
    /\ client_socket = 0
    /\ pcMain = "init"
    /\ pcServer = "idle"
    /\ current_mode = "None"
    /\ current_images = "none"
    /\ current_image_index = 0
    /\ slide_timer = "None"
    /\ shown = "blank"
    /\ strayTimers = 0
    /\ timerThreads = EmptyBag
    /\ pi_socket = 0
    /\ connected = FALSE
    /\ piConn = "idle"
    /\ buffer = <<>>
    /\ piGui = "init"
    /\ afterQueue = <<>>
    /\ nConn = 0
    /\ backlog = <<>>
    /\ conn = [c \in Conns |-> NoConn]
    /\ pubLog = <<>>
    /\ applied = <<>>
    /\ entries = [m \in {"memes", "slides"} |-> 0]
    /\ connTrace = <<"Disconnected">>
    /\ decodeErrors = 0
    /\ escaped = FALSE

\* What load_images finds in a folder, pi.py:54-64.
Folders == {<<TRUE>>}

Init ==
    /\ InitCommon
    /\ memes \in Folders
    /\ slides \in Folders
    /\ stream = <<>>

Min(a, b) == IF a < b THEN a ELSE b

Last(seq) == seq[Len(seq)]

\* The record of the display's connection states, kept to TraceCap entries.
Traced(trace, state) ==
    IF Len(trace) < TraceCap THEN Append(trace, state) ELSE trace

(***************************************************************************)
(* The sensor endpoint (pc.py)                                             *)
(***************************************************************************)

\* run(), pc.py:71-78: sets running and starts the thread of start_server.
PcRun ==
    /\ pcMain = "init"
    /\ pcMain' = "loop"
    /\ running' = TRUE
    /\ pcServer' = "bind"
    /\ UNCHANGED <<pc_socket, client_socket, modeVars, folderVars, linkVars,
                   guiVars, netVars, stream, logVars>>

\* Where the accept loop goes at its head, pc.py:34.
AcceptLoopHead(run) == IF run THEN "accept" ELSE "done"

\* start_server up to the loop, pc.py:28-32.  bind raises when the address is
\* not available; nothing in the thread catches it.
PcListen ==
    /\ pcServer = "bind"
    /\ pcMain # "exited"
    /\ \E bound \in BOOLEAN :
         /\ pc_socket' = IF bound THEN "listening" ELSE "unbound"
         /\ pcServer' = IF bound THEN AcceptLoopHead(running) ELSE "dead"
    /\ UNCHANGED <<running, client_socket, pcMain, modeVars, folderVars, linkVars,
                   guiVars, netVars, stream, logVars>>

\* A variant of the accept step without the break of pc.py:38: the loop
\* goes on accepting while the endpoint runs.
PcAccept_KeepsAccepting ==
    /\ pcServer = "accept"
    /\ pc_socket = "listening"
    /\ backlog # <<>>
    /\ LET c == Head(backlog)
       IN  /\ client_socket' = c
           /\ conn' = [conn EXCEPT ![c].pcEnd = "open"]
           /\ backlog' = Tail(backlog)
    /\ pcServer' = "accept"
    /\ UNCHANGED <<running, pc_socket, pcMain, modeVars, folderVars, linkVars,
                   guiVars, nConn, stream, logVars>>

\* accept() returns a connection, pc.py:36-38: it becomes client_socket and
\* the loop ends.  The thread entered accept() while the socket listened
\* (the loop head sends it there only while running); nothing orders the
\* assignment of pc.py:36 after a cleanup() that closes the socket meanwhile.
PcAccept ==
    /\ pcServer = "accept"
    /\ pcMain # "exited"
    /\ pc_socket \in {"listening", "closed"}
    /\ backlog # <<>>
    /\ LET c == Head(backlog)
       IN  /\ client_socket' = c
           /\ conn' = [conn EXCEPT ![c].pcEnd = "open"]
           /\ backlog' = Tail(backlog)
    /\ pcServer' = "done"
    /\ UNCHANGED <<running, pc_socket, pcMain, modeVars, folderVars, linkVars,
                   guiVars, nConn, stream, logVars>>

\* accept() raises socket.error, pc.py:39-41: on a closed listening socket,
\* or transiently; the thread sleeps one second if still running.
PcAcceptError ==
    /\ pcServer = "accept"
    /\ pc_socket \in {"listening", "closed"}
    /\ pcServer' = IF running THEN "sleep" ELSE "done"
    /\ UNCHANGED <<running, pc_socket, client_socket, pcMain, modeVars, folderVars,
                   linkVars, guiVars, netVars, stream, logVars>>

\* time.sleep(1) returns, pc.py:41, and the loop is at its head again.
PcAcceptRetry ==
    /\ pcServer = "sleep"
    /\ pcServer' = AcceptLoopHead(running)
    /\ UNCHANGED <<running, pc_socket, client_socket, pcMain, modeVars, folderVars,
                   linkVars, guiVars, netVars, stream, logVars>>

\* Whether a write on connection c can fail: the peer's end is closed or the
\* link is broken.
PeerGone(c) == conn[c].reset \/ conn[c].piEnd \in {"closed", "dropped"}

\* What send() can do on the installed connection, pc.py:66.
SendOutcomes(c) == IF PeerGone(c) THEN {"written", "error"} ELSE {"written"}

\* A variant of send_status without the test of pc.py:63: with no connection
\* the call fails on None and the failure ends the loop of run.
SendStatus_Unguarded(face_detected) ==
    /\ pcMain = "loop"
    /\ Len(pubLog) < MaxPublish
    /\ IF client_socket = 0
         THEN /\ pubLog' = Append(pubLog, [v |-> face_detected, to |-> 0, at |-> nConn])
              /\ running' = FALSE
              /\ pcMain' = "cleaned"
              /\ UNCHANGED <<client_socket, conn>>
         ELSE /\ conn' = [conn EXCEPT
                     ![client_socket].sent = @ \o EncodeFrame(face_detected)]
              /\ pubLog' = Append(pubLog,
                     [v |-> face_detected, to |-> client_socket, at |-> nConn])
              /\ UNCHANGED <<client_socket, running, pcMain>>
    /\ UNCHANGED <<pc_socket, pcServer, modeVars, folderVars,
                   linkVars, guiVars, nConn, backlog, stream, applied, entries,
                   connTrace, decodeErrors, escaped>>

\* send_status(face_detected), pc.py:61-69, called from the loop of run
\* (pc.py:86-90).
SendStatus(face_detected) ==
    /\ pcMain = "loop"
    /\ Len(pubLog) < MaxPublish
    /\ IF client_socket = 0
         THEN /\ pubLog' = Append(pubLog, [v |-> face_detected, to |-> 0, at |-> nConn])
              /\ UNCHANGED <<client_socket, conn>>
         ELSE \E did \in SendOutcomes(client_socket) :
                LET c == client_socket
                IN  IF did = "written"
                      THEN /\ conn' = [conn EXCEPT
                                 ![c].sent = @ \o EncodeFrame(face_detected)]
                           /\ pubLog' = Append(pubLog,
                                 [v |-> face_detected, to |-> c, at |-> nConn])
                           /\ UNCHANGED client_socket
                      ELSE /\ client_socket' = 0
                           /\ conn' = [conn EXCEPT ![c].pcEnd = "dropped"]
                           /\ pubLog' = Append(pubLog,
                                 [v |-> face_detected, to |-> -1, at |-> nConn])
    /\ UNCHANGED <<running, pc_socket, pcMain, pcServer, modeVars, folderVars,
                   linkVars, guiVars, nConn, backlog, stream, applied, entries,
                   connTrace, decodeErrors, escaped>>

\* cleanup(), pc.py:103-117, reached from the finally of run (pc.py:100-101).
PcCleanup ==
    /\ pcMain = "loop"
    /\ pcMain' = "cleaned"
    /\ running' = FALSE
    /\ conn' = IF client_socket # 0
                 THEN [conn EXCEPT ![client_socket].pcEnd = "closed"]
                 ELSE conn
    /\ pc_socket' = IF pc_socket = "none" THEN "none" ELSE "closed"
    /\ UNCHANGED <<client_socket, pcServer, modeVars, folderVars, linkVars, guiVars,
                   nConn, backlog, stream, logVars>>

\* A socket end the process still holds.
Held(e) == e \in {"queued", "open"}

\* run() returns and the process ends, pc.py:120-123: the daemon thread
\* (pc.py:77) dies with it and the system closes every socket it held.
PcExit ==
    /\ pcMain = "cleaned"
    /\ pcMain' = "exited"
    /\ pcServer' = IF pcServer = "dead" THEN "dead" ELSE "done"
    /\ pc_socket' = IF pc_socket = "none" THEN "none" ELSE "closed"
    /\ conn' = [c \in Conns |->
                  IF Held(conn[c].pcEnd) THEN [conn[c] EXCEPT !.pcEnd = "closed"]
                  ELSE conn[c]]
    /\ backlog' = <<>>
    /\ UNCHANGED <<running, client_socket, modeVars, folderVars, linkVars, guiVars,
                   nConn, stream, logVars>>

(***************************************************************************)
(* The display endpoint (pi.py): the connection thread                     *)
(***************************************************************************)

\* run(), pi.py:244-256: starts the daemon thread of connect_to_pc, shows
\* the first message and enters the main loop.
PiRun ==
    /\ piGui = "init"
    /\ piGui' = "mainloop"
    /\ piConn' = "connect"
    /\ shown' = "connecting"
    /\ UNCHANGED <<sensorVars, current_mode, current_images, current_image_index,
                   slide_timer, strayTimers, timerThreads, folderVars, pi_socket,
                   connected, buffer, afterQueue, netVars, stream, logVars>>

\* Whether connect() to the listening address succeeds.
Reachable == pc_socket = "listening" /\ Len(backlog) <= ListenBacklog

\* self.socket = socket.socket(...), pi.py:175: the socket self.socket held
\* before loses its last reference without a close ("dropped").
Rebound(cn) ==
    IF pi_socket # 0 /\ cn[pi_socket].piEnd = "open"
      THEN [cn EXCEPT ![pi_socket].piEnd = "dropped"]
      ELSE cn

\* A connect attempt that succeeds, pi.py:173-181.
PiConnectOk ==
    /\ piConn = "connect"
    /\ piGui # "exited"
    /\ Reachable
    /\ nConn < MaxConns
    /\ LET c == nConn + 1
       IN  /\ nConn' = c
           /\ conn' = [Rebound(conn) EXCEPT ![c].piEnd = "open", ![c].pcEnd = "queued"]
           /\ backlog' = Append(backlog, c)
           /\ pi_socket' = c
    /\ connected' = TRUE
    /\ buffer' = <<>>
    /\ piConn' = "read"
    /\ connTrace' = Traced(Traced(connTrace, "Connecting"), "Connected")
    /\ UNCHANGED <<sensorVars, modeVars, folderVars, guiVars, stream, pubLog,
                   applied, entries, decodeErrors, escaped>>

\* A variant of the failed attempt in which the thread gives up where the
\* code sleeps and goes round the loop again.
PiConnectFail_GivesUp ==
    /\ piConn = "connect"
    /\ piGui # "exited"
    /\ ~Reachable
    /\ conn' = Rebound(conn)
    /\ pi_socket' = 0
    /\ connected' = FALSE
    /\ piConn' = "idle"
    /\ connTrace' = Traced(connTrace, "Connecting")
    /\ UNCHANGED <<sensorVars, modeVars, folderVars, buffer, guiVars, nConn, backlog,
                   stream, pubLog, applied, entries, decodeErrors, escaped>>

\* A connect attempt that fails, pi.py:173-176 and the handler 198-207: the
\* new socket is closed and the thread sleeps five seconds.
PiConnectFail ==
    /\ piConn = "connect"
    /\ piGui # "exited"
    /\ ~Reachable
    /\ conn' = Rebound(conn)
    /\ pi_socket' = 0
    /\ connected' = FALSE
    /\ piConn' = "sleep"
    /\ connTrace' = Traced(connTrace, "Connecting")
    /\ UNCHANGED <<sensorVars, modeVars, folderVars, buffer, guiVars, nConn, backlog,
                   stream, pubLog, applied, entries, decodeErrors, escaped>>

\* time.sleep(5) returns, pi.py:207, and the loop of pi.py:172 goes round.
PiRetry ==
    /\ piConn = "sleep"
    /\ piGui # "exited"
    /\ piConn' = "connect"
    /\ UNCHANGED <<sensorVars, modeVars, folderVars, pi_socket, connected, buffer,
                   guiVars, netVars, stream, logVars>>

\* recv returns data, pi.py:182-192: any non-empty prefix of the unread
\* bytes, at most RecvSize of them.  A call of process_message that raises
\* is caught at pi.py:198: the handler closes the socket and sleeps.
PiRecv ==
    /\ piConn = "read"
    /\ piGui # "exited"
    /\ connected
    /\ pi_socket # 0
    /\ LET c == pi_socket
       IN  /\ conn[c].piEnd = "open"
           /\ ~conn[c].reset
           /\ \E n \in 1..Min(Len(Unread(c)), RecvSize) :
                LET data == SubSeq(Unread(c), 1, n)
                    res  == FeedChunk(buffer, data)
                IN  /\ afterQueue' = afterQueue \o res.scheduled
                    /\ decodeErrors' = decodeErrors + res.errors
                    /\ IF res.raised
                         THEN /\ conn' = [conn EXCEPT ![c].rd = @ + n,
                                                      ![c].piEnd = "closed"]
                              /\ connected' = FALSE
                              /\ pi_socket' = 0
                              /\ piConn' = "sleep"
                              /\ buffer' = <<>>
                              /\ escaped' = TRUE
                         ELSE /\ conn' = [conn EXCEPT ![c].rd = @ + n]
                              /\ buffer' = res.buffer
                              /\ UNCHANGED <<connected, pi_socket, piConn, escaped>>
    /\ UNCHANGED <<sensorVars, modeVars, folderVars, piGui, nConn, backlog, stream,
                   pubLog, applied, entries, connTrace>>

\* What ends the read loop without the handler: the flag is down at the loop
\* head (pi.py:182), recv returns no data because the peer closed
\* (pi.py:185-186), or recv raises socket.error (pi.py:194-196).
ReadEnds ==
    \/ ~connected
    \/ pi_socket = 0
    \/ /\ pi_socket # 0
       /\ \/ conn[pi_socket].piEnd # "open"
          \/ conn[pi_socket].reset
          \/ /\ Unread(pi_socket) = <<>>
             /\ conn[pi_socket].pcEnd \in {"closed", "dropped"}

\* A variant of the end of the read loop in which losing the connection
\* puts the display back in no mode.
PiReadBreak_ResetsMode ==
    /\ piConn = "read"
    /\ piGui # "exited"
    /\ ReadEnds
    /\ piConn' = "connect"
    /\ buffer' = <<>>
    /\ current_mode' = "None"
    /\ UNCHANGED <<sensorVars, current_images, current_image_index, slide_timer,
                   shown, strayTimers, timerThreads, folderVars, pi_socket,
                   connected, guiVars,
                   netVars, stream, logVars>>

\* The read loop ends and control is back at pi.py:172: nothing is closed
\* and connected is left as it is.  (buffer is dead from here on: it is
\* assigned again at pi.py:181 before it is read.)
PiReadBreak ==
    /\ piConn = "read"
    /\ piGui # "exited"
    /\ ReadEnds
    /\ piConn' = "connect"
    /\ buffer' = <<>>
    /\ UNCHANGED <<sensorVars, modeVars, folderVars, pi_socket, connected, guiVars,
                   netVars, stream, logVars>>

(***************************************************************************)
(* The display endpoint (pi.py): the GUI thread and the slide timer        *)
(***************************************************************************)

\* A variant of the guard that never finds the display in the target mode,
\* so that every status applied enters its mode afresh.
AlreadyIn_Never(target) == FALSE

\* The guard of switch_to_memes / switch_to_slides, pi.py:116-117, 138-139.
AlreadyIn(target) == current_mode = target

\* The list a name stands for: self.memes / self.slides (pi.py:56-57), or
\* the empty list of pi.py:41.
Images(list) ==
    IF list = "memes" THEN memes ELSE IF list = "slides" THEN slides ELSE <<>>

\* What an image of a list is.
KindOf(list) == IF list = "slides" THEN "slide" ELSE "meme"

\* display_image, pi.py:78-107: the image is shown, or the error message is.
Rendered(kind, ok) == IF ok THEN kind ELSE "image_error"

\* pi.py:167-168: a new Timer is started and self.slide_timer refers to it;
\* a Timer it referred to before stays armed if it was.
Arm ==
    /\ slide_timer' = "armed"
    /\ strayTimers' = IF slide_timer = "armed" THEN strayTimers + 1 ELSE strayTimers

\* The body of show_next_slide past its guard, pi.py:158-168, as the GUI
\* thread runs it from switch_to_slides, with the list it reads (index
\* counts from 0): the slide is shown, the index advances, a timer is armed.
NextSlide(list, index) ==
    /\ shown' = Rendered("slide", Images(list)[index + 1])
    /\ current_image_index' = (index + 1) % Len(Images(list))
    /\ Arm
    /\ UNCHANGED timerThreads

\* A variant of the two switches that records the new mode only once the
\* image has been shown.
SwitchTo_ModeAfterRender(target) ==
    IF AlreadyIn(target)
      THEN UNCHANGED <<modeVars, entries>>
      ELSE /\ current_mode' = IF Images(target) # <<>> /\ Images(target)[1]
                                 THEN target ELSE current_mode
           /\ current_images' = target
           /\ entries' = [entries EXCEPT ![target] = @ + 1]
           /\ current_image_index' = 0
           /\ shown' = IF Images(target) = <<>> THEN "no_images"
                       ELSE Rendered(KindOf(target), Images(target)[1])
           /\ UNCHANGED <<slide_timer, strayTimers, timerThreads>>

SwitchTo(target) ==
    IF AlreadyIn(target)
      THEN UNCHANGED <<modeVars, entries>>
      ELSE /\ current_mode' = target
           /\ current_images' = target
           /\ entries' = [entries EXCEPT ![target] = @ + 1]
           /\ IF target = "memes"
                THEN /\ current_image_index' = 0
                     /\ slide_timer' = "None"
                     /\ UNCHANGED <<strayTimers, timerThreads>>
                     /\ IF memes # <<>>
                          THEN \E i \in 1..Len(memes) :
                                 shown' = Rendered("meme", memes[i])
                          ELSE shown' = "no_memes"
                ELSE IF slides # <<>>
                  THEN NextSlide("slides", 0)
                  ELSE /\ current_image_index' = 0
                       /\ shown' = "no_slides"
                       /\ UNCHANGED <<slide_timer, strayTimers, timerThreads>>

\* A variant of the main loop that runs the callback scheduled last.
PiRunAfter_NewestFirst ==
    /\ piGui = "mainloop"
    /\ afterQueue # <<>>
    /\ SwitchTo(Last(afterQueue))
    /\ applied' = Append(applied, Last(afterQueue))
    /\ afterQueue' = SubSeq(afterQueue, 1, Len(afterQueue) - 1)
    /\ UNCHANGED <<sensorVars, folderVars, linkVars, piGui, netVars, stream, pubLog,
                   connTrace, decodeErrors, escaped>>

\* The main loop runs the callback scheduled first, pi.py:217/220 and 256.
PiRunAfter ==
    /\ piGui = "mainloop"
    /\ afterQueue # <<>>
    /\ SwitchTo(Head(afterQueue))
    /\ applied' = Append(applied, Head(afterQueue))
    /\ afterQueue' = Tail(afterQueue)
    /\ UNCHANGED <<sensorVars, folderVars, linkVars, piGui, netVars, stream, pubLog,
                   connTrace, decodeErrors, escaped>>

\* One thread of the bag moved from one state to another, or gone.
Moved(threads, from, to) == (threads (-) SetToBag({from})) (+) SetToBag({to})

Gone(threads, from) == threads (-) SetToBag({from})

\* A Timer expires and its thread enters show_next_slide: the guard of
\* pi.py:155, and past it the argument of pi.py:159 is read.  The Timer is
\* the one self.slide_timer refers to, or a stray one.
PiTimerFire ==
    /\ piGui # "exited"
    /\ \E stray \in BOOLEAN :
         /\ IF stray
              THEN /\ strayTimers > 0
                   /\ strayTimers' = strayTimers - 1
                   /\ UNCHANGED slide_timer
              ELSE /\ slide_timer = "armed"
                   /\ slide_timer' = "fired"
                   /\ UNCHANGED strayTimers
    /\ timerThreads' =
         IF Images(current_images) = <<>> \/ current_mode # "slides"
           THEN timerThreads
           ELSE timerThreads (+) SetToBag({[at |-> "draw", list |-> current_images,
                                             image |-> current_image_index]})
    /\ UNCHANGED <<sensorVars, current_mode, current_images, current_image_index,
                   shown, folderVars, linkVars, guiVars, netVars, stream, logVars>>

\* The thread's display_image call, pi.py:159 and 78-107, draws the image
\* it read.
PiTimerDraw ==
    /\ piGui # "exited"
    /\ \E t \in BagToSet(timerThreads) :
         /\ t.at = "draw"
         /\ shown' = Rendered(KindOf(t.list), Images(t.list)[t.image + 1])
         /\ timerThreads' = Moved(timerThreads, t, [t EXCEPT !.at = "arm"])
    /\ UNCHANGED <<sensorVars, current_mode, current_images, current_image_index,
                   slide_timer, strayTimers, folderVars, linkVars, guiVars, netVars,
                   stream, logVars>>

\* The thread advances the index and arms the next Timer, pi.py:162-168;
\* the modulus raises ZeroDivisionError on an empty list and ends the thread.
PiTimerArm ==
    /\ piGui # "exited"
    /\ \E t \in BagToSet(timerThreads) :
         /\ t.at = "arm"
         /\ timerThreads' = Gone(timerThreads, t)
         /\ IF Images(current_images) = <<>>
              THEN UNCHANGED <<current_image_index, slide_timer, strayTimers>>
              ELSE /\ current_image_index' =
                        (current_image_index + 1) % Len(Images(current_images))
                   /\ Arm
    /\ UNCHANGED <<sensorVars, current_mode, current_images, shown, folderVars,
                   linkVars, guiVars, netVars, stream, logVars>>

\* cleanup(), pi.py:234-242, on the connection state.
CleanedUp(cn) ==
    IF pi_socket # 0 THEN [cn EXCEPT ![pi_socket].piEnd = "closed"] ELSE cn

\* quit_app, pi.py:229-232: cleanup(), then root.quit() ends the main loop.
PiQuitApp ==
    /\ piGui = "mainloop"
    /\ piGui' = "quit"
    /\ connected' = FALSE
    /\ slide_timer' = IF slide_timer = "armed" THEN "cancelled" ELSE slide_timer
    /\ conn' = CleanedUp(conn)
    /\ UNCHANGED <<sensorVars, current_mode, current_images, current_image_index,
                   shown, strayTimers, timerThreads, folderVars, pi_socket, piConn,
                   buffer, afterQueue, nConn, backlog, stream, logVars>>

\* The finally of run, pi.py:257-258, then the process ends (pi.py:277): the
\* daemon thread (pi.py:248) dies with it and the system closes its sockets.
PiFinally ==
    /\ piGui = "quit"
    /\ piGui' = "exited"
    /\ connected' = FALSE
    /\ slide_timer' = IF slide_timer = "armed" THEN "cancelled" ELSE slide_timer
    /\ conn' = [c \in Conns |->
                  IF conn[c].piEnd = "open"
                    THEN [conn[c] EXCEPT !.piEnd = "closed"]
                    ELSE conn[c]]
    /\ piConn' = "killed"
    /\ buffer' = <<>>
    /\ UNCHANGED <<sensorVars, current_mode, current_images, current_image_index,
                   shown, strayTimers, timerThreads, folderVars, pi_socket,
                   afterQueue, nConn, backlog, stream, logVars>>

(***************************************************************************)
(* The environment                                                         *)
(***************************************************************************)

\* The link of the display's connection breaks: reads and writes on it fail.
LinkBreak ==
    /\ pi_socket # 0
    /\ conn[pi_socket].piEnd = "open"
    /\ ~conn[pi_socket].reset
    /\ conn' = [conn EXCEPT ![pi_socket].reset = TRUE]
    /\ UNCHANGED <<sensorVars, modeVars, folderVars, linkVars, guiVars, nConn,
                   backlog, stream, logVars>>

\* A peer other than pc.py at the address the display connects to
\* (pi.py:176): it listens, accepts every connection, writes `stream` on the
\* first one, and may close a connection.
ForeignListen ==
    /\ pc_socket = "none"
    /\ pc_socket' = "listening"
    /\ UNCHANGED <<running, client_socket, pcMain, pcServer, modeVars, folderVars,
                   linkVars, guiVars, netVars, stream, logVars>>

ForeignServe ==
    /\ backlog # <<>>
    /\ LET c == Head(backlog)
           text == IF c = 1 THEN stream ELSE <<>>
       IN  conn' = [conn EXCEPT ![c].pcEnd = "open", ![c].sent = text]
    /\ backlog' = Tail(backlog)
    /\ UNCHANGED <<sensorVars, modeVars, folderVars, linkVars, guiVars, nConn,
                   stream, logVars>>

ForeignClose(c) ==
    /\ conn[c].pcEnd = "open"
    /\ conn' = [conn EXCEPT ![c].pcEnd = "closed"]
    /\ UNCHANGED <<sensorVars, modeVars, folderVars, linkVars, guiVars, nConn,
                   backlog, stream, logVars>>

(***************************************************************************)
(* Specifications                                                          *)
(***************************************************************************)

\* The display in service: every step of pi.py short of quitting.
Display ==
    \/ PiRun
    \/ PiConnectOk
    \/ PiConnectFail
    \/ PiRetry
    \/ PiRecv
    \/ PiReadBreak
    \/ PiRunAfter
    \/ PiTimerFire
    \/ PiTimerDraw
    \/ PiTimerArm

\* The sensor in service: every step of pc.py short of quitting.
Sensor ==
    \/ PcRun
    \/ PcListen
    \/ PcAccept
    \/ PcAcceptError
    \/ PcAcceptRetry
    \/ \E face_detected \in BOOLEAN : SendStatus(face_detected)

\* The two programs of the repository in service and the network between
\* them.
Next == Sensor \/ Display \/ LinkBreak

Spec == Init /\ [][Next]_vars

\* The payloads of the frames a foreign peer may write.
BadJson == <<"{", "b", "a", "d", "}">>
NumberFive == <<"5">>
Payloads == {JsonDumps(TRUE), JsonDumps(FALSE), BadJson, NumberFive}

RECURSIVE StreamsOf(_)
StreamsOf(n) ==
    IF n = 0 THEN {<<>>}
    ELSE LET S == StreamsOf(n - 1)
         IN  S \cup {s \o p \o <<NL>> : s \in S, p \in Payloads}

Streams == StreamsOf(MaxFrames)

InitStream ==
    /\ InitCommon
    /\ memes \in Folders
    /\ slides \in Folders
    /\ stream \in Streams

Foreign ==
    \/ ForeignListen
    \/ ForeignServe
    \/ \E c \in Conns : ForeignClose(c)

\* The display in service against any peer and any stream.
NextStream == Foreign \/ Display \/ LinkBreak

SpecStream == InitStream /\ [][NextStream]_vars

\* The display against any peer, with the user quitting at any moment.
NextStop == NextStream \/ PiQuitApp \/ PiFinally

SpecStop == InitStream /\ [][NextStop]_vars

\* The folders load_images may find: no image, one that display_image can
\* show, one that it cannot.
AnyFolder == {<<>>, <<TRUE>>, <<FALSE>>}

\* The streams of well-formed status frames.
RECURSIVE StatusStreamsOf(_)
StatusStreamsOf(n) ==
    IF n = 0 THEN {<<>>}
    ELSE LET S == StatusStreamsOf(n - 1)
         IN  S \cup {s \o EncodeFrame(v) : s \in S, v \in BOOLEAN}

InitRender ==
    /\ InitCommon
    /\ memes \in AnyFolder
    /\ slides \in AnyFolder
    /\ stream \in StatusStreamsOf(MaxFrames)

\* The display in service against a peer that sends statuses, with any
\* content of the two folders.
SpecRender == InitRender /\ [][NextStream]_vars

\* Both programs in service over a sound link, with the sensor's user
\* quitting at any moment.
NextSensorStop == Sensor \/ Display \/ PcCleanup \/ PcExit

SpecSensorStop == Init /\ [][NextSensorStop]_vars

\* Both programs with their shutdown.
NextAll == Next \/ PcCleanup \/ PcExit \/ PiQuitApp \/ PiFinally

SpecAll == Init /\ [][NextAll]_vars

(***************************************************************************)
(* What the claims speak of                                                *)
(***************************************************************************)

\* The statuses process_message has handed to the GUI thread, run or not.
Delivered == applied \o afterQueue

\* The complete lines of a text, in order.
RECURSIVE LinesOf(_)
LinesOf(s) ==
    LET k == FindNL(s, 1)
    IN  IF k = 0 THEN <<>>
        ELSE <<SubSeq(s, 1, k - 1)>> \o LinesOf(SubSeq(s, k + 1, Len(s)))

\* The mode a line asks for, read off the sensor's encoding: none for a line
\* that is not a frame of the sensor.
TargetOfLine(line) ==
    IF line = JsonDumps(TRUE) THEN <<"memes">>
    ELSE IF line = JsonDumps(FALSE) THEN <<"slides">>
    ELSE <<>>

\* The modes the lines ask for, in order, up to a line that is valid JSON
\* but no object.
RECURSIVE TargetsOf(_)
TargetsOf(lines) ==
    IF lines = <<>> \/ Head(lines) = NumberFive THEN <<>>
    ELSE TargetOfLine(Head(lines)) \o TargetsOf(Tail(lines))

\* The bytes the display has read from connection c.
ReadFrom(c) == SubSeq(conn[c].sent, 1, conn[c].rd)

\* The positions of a sequence of targets that change the mode, starting
\* from `from`.
RECURSIVE Changes(_, _)
Changes(targets, from) ==
    IF targets = <<>> THEN {}
    ELSE LET rest == {i + 1 : i \in Changes(Tail(targets), Head(targets))}
         IN  IF Head(targets) # from THEN {1} \cup rest ELSE rest

(***************************************************************************)
(* C1.  The number of mode entries (bodies of switch_to_memes /            *)
(* switch_to_slides run past the guard) equals the number of positions in  *)
(* the sequence of statuses applied where the target differs from the mode *)
(* in force just before, starting from None; per mode as well; and the     *)
(* mode in force is the last target applied.                               *)
(***************************************************************************)
C1_EntriesEqualChanges ==
    LET ch == Changes(applied, "None")
    IN  /\ \A m \in {"memes", "slides"} :
             entries[m] = Cardinality({i \in ch : applied[i] = m})
        /\ current_mode = IF applied = <<>> THEN "None" ELSE Last(applied)

\* [true, true, true] has been applied: one entry into memes.
C1_Witness ==
    /\ applied = <<"memes", "memes", "memes">>
    /\ entries["memes"] = 1

(***************************************************************************)
(* C2.  In the run where the sensor publishes true (delivered), the        *)
(* connection is lost, the sensor publishes false while disconnected       *)
(* (not delivered), the display reconnects and the sensor publishes false  *)
(* again, the display ends in slides with one entry into memes and one     *)
(* into slides.                                                            *)
(***************************************************************************)
ScenarioRun ==
    /\ Len(pubLog) = 3
    /\ pubLog[1] = [v |-> TRUE, to |-> 1, at |-> 1]
    /\ applied # <<>> /\ applied[1] = "memes"
    /\ conn[1].reset
    /\ pubLog[2].v = FALSE /\ pubLog[2].to < 1 /\ pubLog[2].at = 1
    /\ pubLog[3].v = FALSE /\ pubLog[3].at = 2
    /\ pi_socket = 2 /\ piConn = "read" /\ connected

\* Nothing is on its way to the mode logic.
Quiet == afterQueue = <<>> /\ (pi_socket # 0 => Unread(pi_socket) = <<>>)

C2_ScenarioEndsInSlides ==
    (ScenarioRun /\ Quiet) =>
        /\ current_mode = "slides"
        /\ entries = [m \in {"memes", "slides"} |-> 1]

(***************************************************************************)
(* C3.  After a write failure in send_status has cleared client_socket     *)
(* while the endpoint is running, the endpoint is accepting again: the     *)
(* accept loop of start_server is live, so that a peer that connects is    *)
(* accepted and installed.                                                 *)
(***************************************************************************)
WriteFailed == \E i \in 1..Len(pubLog) : pubLog[i].to = -1

C3_AcceptingAfterWriteFailure ==
    (running /\ client_socket = 0 /\ WriteFailed) => pcServer \in {"accept", "sleep"}

(***************************************************************************)
(* C4.  Once the display's stop signal is given (cleanup has run), the     *)
(* connected flag is never True again: the reconnect loop makes no further *)
(* connect attempt.                                                        *)
(***************************************************************************)
C4_NoConnectAfterStop == piGui \in {"quit", "exited"} => ~connected

(***************************************************************************)
(* C5.  A frame whose payload is not valid JSON is skipped with one error  *)
(* logged; the display does not close the connection, and every following  *)
(* well-formed frame is delivered.  For every stream made of well-formed   *)
(* and malformed frames only, the records delivered are those of the       *)
(* well-formed frames read so far, in order, and the errors logged number  *)
(* the malformed frames read so far; "{bad}\n" then the frame for true     *)
(* yields exactly one record, true.                                        *)
(***************************************************************************)
NoNonObject(text) == \A i \in 1..Len(LinesOf(text)) : LinesOf(text)[i] # NumberFive

MalformedIn(lines) == Cardinality({i \in 1..Len(lines) : lines[i] = BadJson})

BadThenTrue == BadJson \o <<NL>> \o EncodeFrame(TRUE)

C5_MalformedFrameSkipped ==
    NoNonObject(stream) =>
        /\ ~escaped
        /\ \A c \in Conns : conn[c].piEnd # "closed"
        /\ Delivered = TargetsOf(LinesOf(ReadFrom(1)))
        /\ decodeErrors = MalformedIn(LinesOf(ReadFrom(1)))
        /\ (stream = BadThenTrue /\ conn[1].rd = Len(stream)) =>
              Delivered = <<"memes">> /\ decodeErrors = 1

C5_Witness ==
    /\ stream = BadThenTrue
    /\ applied = <<"memes">>
    /\ decodeErrors = 1
    /\ connected /\ pi_socket = 1 /\ conn[1].piEnd = "open"

(***************************************************************************)
(* C6.  No frame that cannot be decoded into a status record changes the   *)
(* display's connection state or leaves the per-frame handler: the display *)
(* never closes its socket nor starts a reconnect because of a frame.      *)
(***************************************************************************)
C6_NoFrameDropsConnection ==
    /\ ~escaped
    /\ \A c \in Conns : conn[c].piEnd # "closed"

(***************************************************************************)
(* C7.  send_status called while no connection is installed changes no     *)
(* state of the endpoint and writes nothing: the record is not buffered,   *)
(* so what is written on any connection, then or later, is exactly the     *)
(* frames of the calls that wrote on that connection, in order.            *)
(***************************************************************************)
RECURSIVE FramesTo(_, _)
FramesTo(log, c) ==
    IF log = <<>> THEN <<>>
    ELSE (IF Head(log).to = c THEN EncodeFrame(Head(log).v) ELSE <<>>)
           \o FramesTo(Tail(log), c)

WrittenIsLogged == \A c \in Conns : conn[c].sent = FramesTo(pubLog, c)

DropLeavesNoTrace ==
    (client_socket = 0 /\ pubLog' # pubLog) =>
        /\ UNCHANGED <<sensorVars, netVars>>
        /\ Last(pubLog').to = 0

C7_PublishWithoutConnection == []WrittenIsLogged /\ [][DropLeavesNoTrace]_vars

\* A record was dropped before the first accept; the peer accepted later
\* has been sent, and has applied, the later record only.
C7_Witness ==
    /\ Len(pubLog) = 2
    /\ pubLog[1] = [v |-> TRUE, to |-> 0, at |-> 0]
    /\ pubLog[2] = [v |-> FALSE, to |-> 1, at |-> 1]
    /\ applied = <<"slides">>

(***************************************************************************)
(* C8.  A display that starts while the sensor is unreachable goes through *)
(* Disconnected, Connecting, Connecting (after the retry wait), Connected  *)
(* in that order when its second attempt succeeds; a failed attempt always *)
(* leads to the wait and another attempt, without a cap; and no record     *)
(* reaches the mode logic before the display is Connected.                 *)
(***************************************************************************)
C8_ConnectRetryThenDeliver ==
    /\ connTrace[1] = "Disconnected"
    /\ \A i \in 2..Len(connTrace) :
         /\ connTrace[i] \in {"Connecting", "Connected"}
         /\ connTrace[i] = "Connected" => connTrace[i - 1] = "Connecting"
    /\ Len(connTrace) >= 2 => connTrace[2] = "Connecting"
    /\ Len(connTrace) < TraceCap =>
         (nConn = 0 <=> \A i \in 1..Len(connTrace) : connTrace[i] # "Connected")
    /\ nConn = 0 => (~connected /\ Delivered = <<>> /\ current_mode = "None")
    /\ piGui = "mainloop" => piConn \in {"connect", "sleep", "read"}
    /\ piConn = "sleep" =>
         /\ ~connected /\ pi_socket = 0
         /\ (~escaped /\ Len(connTrace) < TraceCap) => Last(connTrace) = "Connecting"

C8_Witness ==
    /\ connTrace = <<"Disconnected", "Connecting", "Connecting", "Connected">>
    /\ applied # <<>>

(***************************************************************************)
(* C9.  The statuses applied on the GUI thread are those of the frames     *)
(* received, in the order received, none reordered, duplicated or          *)
(* coalesced, however the bytes were cut into recv chunks: what has been   *)
(* applied, followed by what is scheduled, is the sequence of the frames   *)
(* read so far.                                                            *)
(***************************************************************************)
C9_AppliedInFrameOrder ==
    /\ applied \o afterQueue = TargetsOf(LinesOf(ReadFrom(1)))
    /\ \A c \in Conns : c # 1 => conn[c].sent = <<>>

C9_Witness ==
    /\ applied = <<"slides", "memes">>
    /\ stream = EncodeFrame(FALSE) \o EncodeFrame(TRUE)

(***************************************************************************)
(* C10.  For every stream and every way of splitting it into recv chunks,  *)
(* the buffer-and-split loop has delivered, after any number of chunks,    *)
(* what it delivers when the bytes read so far arrive in one chunk, and    *)
(* holds the same remainder.                                               *)
(***************************************************************************)
C10_SplitInvariant ==
    (pi_socket = 1 /\ piConn = "read") =>
        LET one == FeedChunk(<<>>, ReadFrom(1))
        IN  /\ ~one.raised
            /\ Delivered = one.scheduled
            /\ decodeErrors = one.errors
            /\ buffer = one.buffer

\* A chunk ended inside the second of two well-formed frames.
C10_Witness ==
    /\ stream = EncodeFrame(TRUE) \o EncodeFrame(FALSE)
    /\ Delivered = <<"memes">>
    /\ Len(buffer) = 7
    /\ pi_socket = 1 /\ piConn = "read"

(***************************************************************************)
(* C11.  When bind fails at startup the failure is fatal: run() makes no   *)
(* further pass of its detect-and-publish loop with no listening socket,   *)
(* so no send_status call is made once start_server has failed.            *)
(***************************************************************************)
BindFailed == pcServer = "dead" /\ pc_socket = "unbound"

C11_BindFailureStopsRun == [][BindFailed => pubLog' = pubLog]_vars

(***************************************************************************)
(* C12.  Every connection socket is closed when its connection is          *)
(* dropped: no endpoint lets go of a connection socket it has not closed   *)
(* (the sensor on a write failure, the display on a read error or a        *)
(* zero-length read, before it creates the next socket), so each endpoint  *)
(* has at most one connection socket that it has not closed.               *)
(***************************************************************************)
Unclosed(end) == end \in {"open", "dropped"}

C12_SocketsClosedWhenDropped ==
    /\ \A c \in Conns : conn[c].pcEnd # "dropped" /\ conn[c].piEnd # "dropped"
    /\ Cardinality({c \in Conns : Unclosed(conn[c].pcEnd)}) <= 1
    /\ Cardinality({c \in Conns : Unclosed(conn[c].piEnd)}) <= 1

(***************************************************************************)
(* C13.  The display leaves Connected on every connection loss: when the   *)
(* connection thread is about to make a connect attempt, and while it      *)
(* waits to retry, the flag connected is False; connected is True only     *)
(* while the thread is in its read loop on a connection of its own.        *)
(***************************************************************************)
C13_ConnectedOnlyWhileReading ==
    /\ piConn \in {"connect", "sleep"} => ~connected
    /\ (connected /\ piConn # "killed") =>
         (piConn = "read" /\ pi_socket # 0 /\ conn[pi_socket].piEnd = "open")

(***************************************************************************)
(* C14.  current_mode changes only in the step that applies a decoded      *)
(* status, and then to that status's target: connection loss, connect      *)
(* failure, retry and reconnection leave it alone; and once a status has   *)
(* been applied the mode is never None again.                              *)
(***************************************************************************)
ModeStepIsStatus ==
    current_mode' # current_mode =>
        /\ afterQueue # <<>>
        /\ applied' = Append(applied, Head(afterQueue))
        /\ current_mode' = Head(afterQueue)
        /\ UNCHANGED <<linkVars, netVars>>

ModeSet == applied # <<>> => current_mode \in {"memes", "slides"}

C14_ModeFollowsStatusOnly == []ModeSet /\ [][ModeStepIsStatus]_vars

\* The mode entered on the first connection is still in force after that
\* connection was lost and the display has connected again.
C14_Witness ==
    /\ current_mode = "memes"
    /\ conn[1].reset
    /\ pi_socket = 2 /\ connected /\ piConn = "read"

(***************************************************************************)
(* C15.  The sensor has at most one installed peer connection: while       *)
(* client_socket holds a connection no step accepts another peer or        *)
(* installs one over it, however many peers have connected and wait in     *)
(* the listen queue; at most one accepted connection is open at a time.    *)
(***************************************************************************)
OneInstalled ==
    /\ Cardinality({c \in Conns : conn[c].pcEnd = "open"}) <= 1
    /\ \A c \in Conns : conn[c].pcEnd = "open" => client_socket = c

NoAcceptOverInstalled ==
    client_socket # 0 =>
        /\ client_socket' \in {client_socket, 0}
        /\ Len(backlog') >= Len(backlog)

C15_SinglePeer == []OneInstalled /\ [][NoAcceptOverInstalled]_vars

\* A second peer has connected and waits while the first is installed.
C15_Witness ==
    /\ client_socket = 1
    /\ backlog = <<2>>
    /\ conn[2].piEnd = "open"

(***************************************************************************)
(* C16.  Each endpoint's connection reference has one writer: the thread   *)
(* that assigns it (start_server on the sensor, connect_to_pc on the       *)
(* display) is the thread of every step that assigns, clears or closes it. *)
(* A step belongs to those threads when it moves their position.           *)
(***************************************************************************)
ServerThreadStep == pcServer' # pcServer

ConnectionThreadStep == piConn' # piConn

SensorRefWritten ==
    \/ client_socket' # client_socket
    \/ \E c \in Conns : conn[c].pcEnd = "open" /\ conn'[c].pcEnd \in {"closed", "dropped"}

DisplayRefWritten ==
    \/ pi_socket' # pi_socket
    \/ \E c \in Conns : conn[c].piEnd = "open" /\ conn'[c].piEnd \in {"closed", "dropped"}

SingleWriter ==
    /\ SensorRefWritten => ServerThreadStep
    /\ DisplayRefWritten => ConnectionThreadStep

C16_SingleWriterPerReference == [][SingleWriter]_vars

(***************************************************************************)
(* C17.  When rendering on mode entry fails (display_image cannot show the *)
(* image, or the folder is empty) the mode is updated all the same: after  *)
(* every applied status current_mode is its target whatever the folders    *)
(* hold, and applying a status whose target is the mode in force changes   *)
(* nothing (no second attempt to render).                                  *)
(***************************************************************************)
ModeIsLastApplied == applied # <<>> => current_mode = Last(applied)

RepeatIsNoOp ==
    (applied' # applied /\ Last(applied') = current_mode) =>
        UNCHANGED <<modeVars, entries>>

C17_ModeSetDespiteRenderFailure == []ModeIsLastApplied /\ [][RepeatIsNoOp]_vars

\* true was applied twice with a memes folder that cannot be rendered: the
\* mode is memes, entered once, and the failure message is what is shown.
C17_Witness ==
    /\ memes \in {<<>>, <<FALSE>>}
    /\ applied = <<"memes", "memes">>
    /\ current_mode = "memes"
    /\ entries["memes"] = 1
    /\ shown \in {"no_memes", "image_error"}

(***************************************************************************)
(* C18.  Once the sensor's stop signal is given (cleanup has set running   *)
(* False and closed the listening socket) the accept task installs no      *)
(* connection: client_socket is not assigned after stop.                   *)
(***************************************************************************)
Stopped == pcMain \in {"cleaned", "exited"}

C18_NoInstallAfterStop == [][Stopped => client_socket' = client_socket]_vars

(***************************************************************************)
(* C19.  At most one slideshow timer is armed at any time, whatever the    *)
(* interleaving of the Timer threads with the GUI thread, and none is      *)
(* armed once cleanup has returned.                                        *)
(***************************************************************************)
ArmedTimers == strayTimers + (IF slide_timer = "armed" THEN 1 ELSE 0)

C19_AtMostOneTimer ==
    /\ ArmedTimers <= 1
    /\ piGui \in {"quit", "exited"} => ArmedTimers = 0

\* The first half alone: two timers armed while the display is in service.
C19_OneChainInService == piGui = "mainloop" => ArmedTimers <= 1

(***************************************************************************)
(* C20.  What is shown matches the mode: while current_mode is "memes"     *)
(* (switch_to_memes has completed, switch_to_slides has not begun) the     *)
(* image on screen is not a slide drawn by show_next_slide.                *)
(***************************************************************************)
C20_NoSlideInMemes == current_mode = "memes" => shown # "slide"

====
